---------------------------- MODULE Spec2Model ----------------------------
(***************************************************************************)
(* A model of the simple-paillier suite: the number-theory primitives, the *)
(* key generator and the cipher engine of paillier_common.py, the message  *)
(* and response classes with their JSON codec, the server's request        *)
(* handler (paillier_server.py) and the client's main script               *)
(* (paillier_client.py).                                                   *)
(*                                                                         *)
(* Spec      one client session against one server connection.            *)
(* SpecXgcd  xgcd applied to integer arguments of either sign.            *)
(* SpecFair  Spec with the key generator's retry loop scheduled fairly.    *)
(***************************************************************************)
EXTENDS Integers, Sequences, FiniteSets, TLC

(***************************************************************************)
(* Bounds of the model.                                                    *)
(***************************************************************************)
\* the primes handed to generate_paillier_keys are at most MaxPrime
MaxPrime == 5
\* encrypt draws its candidate random factor from 2 .. Min(n*n, MaxRand)
MaxRand == 17
\* the plaintext multiplier typed for a "mul" request lies in -MaxMul .. MaxMul
MaxMul == 3
\* xgcd's arguments lie in -MaxArg .. MaxArg
MaxArg == 6

(***************************************************************************)
(* Python's integer arithmetic.                                            *)
(***************************************************************************)
\* Python has no integer that means "absent": None is modelled by -1 in the
\* places (gMu, r, the ciphertexts) whose proper values are never negative
None == -1

Abs(a) == IF a < 0 THEN -a ELSE a

Min(a, b) == IF a < b THEN a ELSE b

\* a % b, b # 0: the result takes the sign of the divisor
PyMod(a, b) == IF b > 0 THEN a % b ELSE -((-a) % (-b))

\* a // b, b # 0: floor division
PyFloorDiv(a, b) == (a - PyMod(a, b)) \div b

RECURSIVE GcdNat(_, _)
GcdNat(a, b) == IF b = 0 THEN a ELSE GcdNat(b, a % b)

\* math.gcd: the non-negative greatest common divisor
gcd(a, b) == GcdNat(Abs(a), Abs(b))

RECURSIVE ModPow(_, _, _)
\* b^e mod m for e >= 0, m > 0
ModPow(b, e, m) == IF e = 0 THEN 1 % m ELSE ((b % m) * ModPow(b, e - 1, m)) % m

\* the outcome of a call: a returned integer or a raised exception
Ret(v) == [ok |-> TRUE, val |-> v, exc |-> "", message |-> ""]

Raise(e, msg) == [ok |-> FALSE, val |-> 0, exc |-> e, message |-> msg]

\* the builtin pow(base, exp, mod) on integers: a zero modulus is a
\* ValueError; a negative exponent raises the inverse of the base, which
\* must exist, to the power -exp
pow(base, exp, mod) ==
    IF mod = 0 THEN Raise("ValueError", "pow() 3rd argument cannot be 0")
    ELSE IF exp >= 0 THEN Ret(ModPow(base, exp, mod))
    ELSE IF gcd(base, mod) # 1
         THEN Raise("ValueError", "base is not invertible for the given modulus")
    ELSE LET inv == CHOOSE i \in 0 .. mod - 1 : (i * (base % mod)) % mod = 1 % mod
         IN  Ret(ModPow(inv, -exp, mod))

(***************************************************************************)
(* Number-theory primitives.                                               *)
(***************************************************************************)
RECURSIVE xgcdLoop(_, _, _, _, _, _)
\* the while loop of xgcd: the values of a, x0, y0 when b reaches 0
xgcdLoop(a, b, x0, x1, y0, y1) ==
    IF b = 0 THEN <<a, x0, y0>>
    ELSE LET q == PyFloorDiv(a, b)
         IN  xgcdLoop(b, PyMod(a, b), x1, x0 - q * x1, y1, y0 - q * y1)

\* the outcome of xgcd: the returned triple, or the failure of its assertion
XRet(t) == [ok |-> TRUE, g |-> t[1], x |-> t[2], y |-> t[3], exc |-> ""]

XRaise(e) == [ok |-> FALSE, g |-> 0, x |-> 0, y |-> 0, exc |-> e]

xgcd(a, b) ==
    LET t == xgcdLoop(a, b, 1, 0, 0, 1)
    IN  IF a * t[2] + b * t[3] = gcd(a, b) THEN XRet(t)
        ELSE XRaise("AssertionError")

modinv(a, m) ==
    LET r == xgcd(a, m)
    IN  IF ~r.ok THEN Raise(r.exc, "")
        ELSE IF r.g # 1 THEN Raise("Exception", "Modular inverse does not exist")
        ELSE IF m = 0 THEN Raise("ZeroDivisionError", "integer modulo by zero")
        ELSE LET inv == PyMod(r.x, m)
             IN  IF PyMod(inv * a, m) = 1 THEN Ret(inv)
                 ELSE Raise("AssertionError", "")

(***************************************************************************)
(* Cipher engine.                                                          *)
(***************************************************************************)
\* encrypt_param with g^msg reduced modulo n instead of n*n
encrypt_param_modn(msg, g, n, r) ==
    LET k1 == pow(g, msg, n).val
        k2 == pow(r, n, n * n).val
    IN  (k1 * k2) % (n * n)

\* encrypt_param without the random factor
encrypt_param_nor(msg, g, n, r) == pow(g, msg, n * n).val

\* n > 0: both powers are defined
encrypt_param(msg, g, n, r) ==
    LET k1 == pow(g, msg, n * n).val
        k2 == pow(r, n, n * n).val
    IN  (k1 * k2) % (n * n)

\* n > 0, lam >= 0
decrypt(ciphertext, lam, mu, n) ==
    LET k1 == pow(ciphertext, lam, n * n).val
        l  == PyFloorDiv(k1 - 1, n)
    IN  PyMod(l * mu, n)

(***************************************************************************)
(* JSON values and records. A value is an integer or a string; a record    *)
(* (a Python dict) is a function from the keys present to their values.    *)
(***************************************************************************)
JInt(i) == [kind |-> "int", int |-> i, str |-> ""]

JStr(s) == [kind |-> "str", int |-> 0, str |-> s]

\* Python's truth value of a JSON value: 0 and "" are false
Truthy(v) == IF v.kind = "int" THEN v.int # 0 ELSE v.str # ""

\* the dict {k1: v1, ...} given as a sequence of <<key, value>> pairs
Obj(pairs) ==
    [k \in {pairs[i][1] : i \in DOMAIN pairs} |->
        pairs[CHOOSE i \in DOMAIN pairs : pairs[i][1] = k][2]]

(***************************************************************************)
(* Request messages.                                                       *)
(***************************************************************************)
ADD == "ADD"
MUL == "MUL"
SUB == "SUB"

PaillierAddMsg(a, b, nn) == [cls |-> "PaillierAddMsg", e1 |-> a, e2 |-> b, n |-> nn]

PaillierMulMsg(xx, mm, nn) == [cls |-> "PaillierMulMsg", x |-> xx, m |-> mm, n |-> nn]

PaillierSubMsg(a, b, nn) == [cls |-> "PaillierSubMsg", e1 |-> a, e2 |-> b, n |-> nn]

\* the outcome of a parse or of a computation: an object or a raised exception
RetObj(o) == [ok |-> TRUE, obj |-> o, exc |-> "", message |-> ""]

RaiseObj(e, msg) == [ok |-> FALSE, obj |-> <<>>, exc |-> e, message |-> msg]

MessageParseError(msg) == RaiseObj("MessageParseError", msg)

\* parseAdd looking for e2 before e1
parseAdd_e2first(json) ==
    IF "e2" \notin DOMAIN json THEN MessageParseError("No \"e2\" field in message")
    ELSE IF "e1" \notin DOMAIN json THEN MessageParseError("No \"e1\" field in message")
    ELSE IF "n" \notin DOMAIN json THEN MessageParseError("No \"n\" field in message")
    ELSE RetObj(PaillierAddMsg(json["e1"], json["e2"], json["n"]))

parseAdd(json) ==
    IF "e1" \notin DOMAIN json THEN MessageParseError("No \"e1\" field in message")
    ELSE IF "e2" \notin DOMAIN json THEN MessageParseError("No \"e2\" field in message")
    ELSE IF "n" \notin DOMAIN json THEN MessageParseError("No \"n\" field in message")
    ELSE RetObj(PaillierAddMsg(json["e1"], json["e2"], json["n"]))

parseMul(json) ==
    IF "ciphertext" \notin DOMAIN json
    THEN MessageParseError("No \"ciphertext\" field in message")
    ELSE IF "multiplier" \notin DOMAIN json
    THEN MessageParseError("No \"multiplier field in message")
    ELSE IF "n" \notin DOMAIN json THEN MessageParseError("No \"n\" field in message")
    ELSE RetObj(PaillierMulMsg(json["ciphertext"], json["multiplier"], json["n"]))

parseSub(json) ==
    IF "e1" \notin DOMAIN json THEN MessageParseError("No \"e1\" field in message")
    ELSE IF "e2" \notin DOMAIN json THEN MessageParseError("No \"e2\" field in message")
    ELSE IF "n" \notin DOMAIN json THEN MessageParseError("No \"n\" field in message")
    ELSE RetObj(PaillierSubMsg(json["e1"], json["e2"], json["n"]))

\* PaillierMessage.fromJson
MessageFromJson(json) ==
    IF "type" \in DOMAIN json /\ json["type"] = JStr(ADD) THEN parseAdd(json)
    ELSE IF "type" \in DOMAIN json /\ json["type"] = JStr(MUL) THEN parseMul(json)
    ELSE IF "type" \in DOMAIN json /\ json["type"] = JStr(SUB) THEN parseSub(json)
    ELSE MessageParseError("No \"type\" field in message")

\* PaillierAddMsg.toJson, PaillierMulMsg.toJson, PaillierSubMsg.toJson
MessageToJson(msg) ==
    IF msg.cls = "PaillierAddMsg"
    THEN Obj(<< <<"type", JStr(ADD)>>, <<"e1", msg.e1>>, <<"e2", msg.e2>>, <<"n", msg.n>> >>)
    ELSE IF msg.cls = "PaillierMulMsg"
    THEN Obj(<< <<"type", JStr(MUL)>>, <<"ciphertext", msg.x>>,
                <<"multiplier", msg.m>>, <<"n", msg.n>> >>)
    ELSE Obj(<< <<"type", JStr(SUB)>>, <<"e1", msg.e1>>, <<"e2", msg.e2>>, <<"n", msg.n>> >>)

\* PaillierAddMsg.fromValues, PaillierMulMsg.fromValues and
\* PaillierSubMsg.fromValues, given the ciphertexts encrypt returned
fromValues(sc, nn, c1, c2, mult) ==
    IF sc = "add" THEN PaillierAddMsg(JInt(c1), JInt(c2), JInt(nn))
    ELSE IF sc = "mul" THEN PaillierMulMsg(JInt(c1), JInt(mult), JInt(nn))
    ELSE PaillierSubMsg(JInt(c1), JInt(c2), JInt(nn))

(***************************************************************************)
(* Responses.                                                              *)
(***************************************************************************)
ERROR == "ERROR"
ADD_RESP == "ADD_RESP"
MUL_RESP == "MUL_RESP"
SUB_RESP == "SUB_RESP"

PaillierResponse(c, t, res) == [cls |-> c, msgType |-> t, result |-> res]

PaillierAddResponse(res) == PaillierResponse("PaillierAddResponse", ADD_RESP, res)

PaillierMulResponse(res) == PaillierResponse("PaillierMulResponse", MUL_RESP, res)

PaillierSubResponse(res) == PaillierResponse("PaillierSubResponse", SUB_RESP, res)

PaillierErrorResponse(error_message) ==
    IF Truthy(error_message)
    THEN PaillierResponse("PaillierErrorResponse", ERROR, error_message)
    ELSE PaillierResponse("PaillierErrorResponse", ERROR, JStr("error"))

\* PaillierResponse.toJson
ResponseToJson(r) == Obj(<< <<"type", JStr(r.msgType)>>, <<"result", r.result>> >>)

parseAddResponse(json) ==
    IF "result" \in DOMAIN json THEN RetObj(PaillierAddResponse(json["result"]))
    ELSE MessageParseError("No \"result\" field in message")

parseMulResponse(json) ==
    IF "result" \in DOMAIN json THEN RetObj(PaillierMulResponse(json["result"]))
    ELSE MessageParseError("No \"result\" field in message")

parseSubResponse(json) ==
    IF "result" \in DOMAIN json THEN RetObj(PaillierSubResponse(json["result"]))
    ELSE MessageParseError("No \"result\" field in message")

parseErrorReponse(json) ==
    IF "result" \in DOMAIN json THEN RetObj(PaillierErrorResponse(json["result"]))
    ELSE MessageParseError("No \"result\" field in message")

\* PaillierResponse.fromJson
ResponseFromJson(json) ==
    IF "type" \in DOMAIN json /\ json["type"] = JStr(ADD_RESP) THEN parseAddResponse(json)
    ELSE IF "type" \in DOMAIN json /\ json["type"] = JStr(MUL_RESP) THEN parseMulResponse(json)
    ELSE IF "type" \in DOMAIN json /\ json["type"] = JStr(ERROR) THEN parseErrorReponse(json)
    ELSE IF "type" \in DOMAIN json /\ json["type"] = JStr(SUB_RESP) THEN parseSubResponse(json)
    ELSE MessageParseError("No \"type\" field in message")

\* the outcome of decryptResult: the plaintext or a raised exception, whose
\* message is a JSON value
Value(v) == [kind |-> "value", val |-> v, exc |-> "", message |-> JStr("")]

Raised(e, msg) == [kind |-> "raised", val |-> 0, exc |-> e, message |-> msg]

NoOutcome == [kind |-> "none", val |-> 0, exc |-> "", message |-> JStr("")]

\* decryptResult without the override of PaillierErrorResponse
decryptResult_nooverride(r, lam, mu, nn) ==
    IF r.result.kind # "int"
    THEN Raised("TypeError", JStr("unsupported operand type(s) for pow()"))
    ELSE Value(decrypt(r.result.int, lam, mu, nn))

\* PaillierResponse.decryptResult and its override in PaillierErrorResponse;
\* a result that is not an integer makes pow raise TypeError
decryptResult(r, lam, mu, nn) ==
    IF r.cls = "PaillierErrorResponse"
    THEN Raised("PaillierComputationError", r.result)
    ELSE IF r.result.kind # "int"
    THEN Raised("TypeError", JStr("unsupported operand type(s) for pow()"))
    ELSE Value(decrypt(r.result.int, lam, mu, nn))

(***************************************************************************)
(* computeResult of the three request classes. The fields of the requests  *)
(* explored are integers.                                                  *)
(***************************************************************************)
\* the add computation with the sum of the ciphertexts
AddComputeResult_sum(msg) ==
    LET nsq == msg.n.int * msg.n.int
    IN  IF nsq = 0 THEN RaiseObj("ZeroDivisionError", "integer modulo by zero")
        ELSE RetObj(PaillierAddResponse(JInt((msg.e1.int + msg.e2.int) % nsq)))

\* the add computation wrapped in the multiplication response
AddComputeResult_multag(msg) ==
    LET nsq == msg.n.int * msg.n.int
    IN  IF nsq = 0 THEN RaiseObj("ZeroDivisionError", "integer modulo by zero")
        ELSE RetObj(PaillierMulResponse(JInt((msg.e1.int * msg.e2.int) % nsq)))

AddComputeResult(msg) ==
    LET nsq == msg.n.int * msg.n.int
    IN  IF nsq = 0 THEN RaiseObj("ZeroDivisionError", "integer modulo by zero")
        ELSE RetObj(PaillierAddResponse(JInt((msg.e1.int * msg.e2.int) % nsq)))

\* the mul computation with the product x * m in place of the power
MulComputeResult_product(msg) ==
    LET nsq == msg.n.int * msg.n.int
    IN  IF nsq = 0 THEN RaiseObj("ZeroDivisionError", "integer modulo by zero")
        ELSE RetObj(PaillierMulResponse(JInt((msg.x.int * msg.m.int) % nsq)))

MulComputeResult(msg) ==
    LET r == pow(msg.x.int, msg.m.int, msg.n.int * msg.n.int)
    IN  IF r.ok THEN RetObj(PaillierMulResponse(JInt(r.val)))
        ELSE RaiseObj(r.exc, r.message)

\* the sub computation multiplying by e2 itself, not by its inverse
SubComputeResult_noinv(msg) ==
    LET nsq == msg.n.int * msg.n.int
    IN  IF nsq = 0 THEN RaiseObj("ZeroDivisionError", "integer modulo by zero")
        ELSE RetObj(PaillierSubResponse(JInt((msg.e1.int * msg.e2.int) % nsq)))

SubComputeResult(msg) ==
    LET nsq == msg.n.int * msg.n.int
        neg_e2 == modinv(msg.e2.int, nsq)
    IN  IF neg_e2.ok
        THEN RetObj(PaillierSubResponse(JInt((msg.e1.int * neg_e2.val) % nsq)))
        ELSE RaiseObj(neg_e2.exc, neg_e2.message)

computeResult(msg) ==
    IF msg.cls = "PaillierAddMsg" THEN AddComputeResult(msg)
    ELSE IF msg.cls = "PaillierMulMsg" THEN MulComputeResult(msg)
    ELSE SubComputeResult(msg)

(***************************************************************************)
(* PaillierHandler.handle on the record received: the response it sends,   *)
(* or the exception that leaves it (nothing is sent then).                 *)
(***************************************************************************)
Sent(json) == [fault |-> FALSE, response |-> <<json>>, exc |-> ""]

Fault(e) == [fault |-> TRUE, response |-> <<>>, exc |-> e]

handle(data) ==
    LET pMsg == MessageFromJson(data)
    IN  IF ~pMsg.ok
        THEN Sent(ResponseToJson(PaillierErrorResponse(JStr(pMsg.message))))
        ELSE LET result == computeResult(pMsg.obj)
             IN  IF result.ok THEN Sent(ResponseToJson(result.obj))
                 ELSE Fault(result.exc)

(***************************************************************************)
(* State.                                                                  *)
(***************************************************************************)
VARIABLES
    pc,        \* where the client's script stands
    p, q,      \* the primes P, Q of the client
    n, g,      \* publicKey
    gLambda,   \* privateKey.gLambda
    gMu,       \* privateKey.gMu, None while generate_paillier_keys loops
    scenario,  \* "add", "mul", "sub" as typed; "" before, and for a foreign peer
    m1, m2,    \* the two integers typed (for "mul": the message, the multiplier)
    r1, r2,    \* the random factors encrypt accepted for e1 and e2
    e1, e2,    \* the ciphertexts of the message under construction
    req,       \* the request record on the connection, <<>> when none
    srv,       \* the handler: "idle", "sent" a response, or ended by a "fault"
    srvExc,    \* the exception that left the handler
    resp,      \* the response record on the connection, <<>> when none
    out,       \* what deserialise and decryptResult gave the client
    xa, xb,    \* SpecXgcd: the arguments of xgcd
    xres       \* SpecXgcd: the outcome of xgcd, <<>> before the call

vars == <<pc, p, q, n, g, gLambda, gMu, scenario, m1, m2, r1, r2, e1, e2,
          req, srv, srvExc, resp, out, xa, xb, xres>>

keyVars == <<p, q, n, g, gLambda>>

encVars == <<scenario, m1, m2, r1, r2, e1, e2>>

netVars == <<req, srv, srvExc, resp, out>>

xVars == <<xa, xb, xres>>

IsPrime(k) == k >= 2 /\ \A d \in 2 .. k - 1 : k % d # 0

Primes == {k \in 2 .. MaxPrime : IsPrime(k)}

(***************************************************************************)
(* The records a foreign peer may put on a connection.                     *)
(***************************************************************************)
WireInts == {-1, 0, 2, 15}

\* every record over the keys ks whose values are integers of WireInts
IntRecords(ks) ==
    UNION {[sub -> {JInt(i) : i \in WireInts}] : sub \in SUBSET ks}

WithType(rec, t) ==
    [k \in DOMAIN rec \cup {"type"} |-> IF k = "type" THEN JStr(t) ELSE rec[k]]

\* requests: a known type with any part of its fields, an unknown type, no type
WireReqs ==
    {WithType(r, t) : r \in IntRecords({"e1", "e2", "n"}), t \in {ADD, SUB}}
    \cup {WithType(r, MUL) : r \in IntRecords({"ciphertext", "multiplier", "n"})}
    \cup {WithType(r, "FOO") : r \in IntRecords({"e1"})}
    \cup IntRecords({"e1"})

WireResults == {JInt(0), JInt(16), JStr(""), JStr("boom")}

\* responses: any type or none, with or without a result
WireResps ==
    LET bodies == {[k \in {} |-> JInt(0)]} \cup {[result |-> v] : v \in WireResults}
    IN  bodies \cup {WithType(r, t) : r \in bodies,
                     t \in {ADD_RESP, MUL_RESP, SUB_RESP, ERROR, "FOO"}}

(***************************************************************************)
(* generate_paillier_keys: the assignments before the loop are part of     *)
(* Init, KeyGenIter is one iteration of "while gMu is None".               *)
(***************************************************************************)
KeyGenTry(nn, gg, lam) ==
    LET u == pow(gg, lam, nn * nn)
    IN  IF ~u.ok THEN u
        ELSE modinv(PyFloorDiv(u.val - 1, nn), nn)

KeyGenIter ==
    /\ pc = "keygen"
    /\ LET r == KeyGenTry(n, g, gLambda)
       IN  IF r.ok
           THEN gMu' = r.val /\ pc' = "input"
           ELSE UNCHANGED <<gMu, pc>>
    /\ UNCHANGED <<keyVars, encVars, netVars, xVars>>

(***************************************************************************)
(* The client's prompt loop: a scenario and two integers.                  *)
(***************************************************************************)
Input ==
    /\ pc = "input"
    /\ \E sc \in {"add", "mul", "sub"} :
         /\ scenario' = sc
         /\ m1' \in 0 .. n - 1
         /\ m2' \in IF sc = "mul" THEN -MaxMul .. MaxMul ELSE 0 .. n - 1
    /\ pc' = "enc1"
    /\ UNCHANGED <<keyVars, gMu, r1, r2, e1, e2, netVars, xVars>>

(***************************************************************************)
(* encrypt: one iteration of "while not r"; the draw v is accepted when it *)
(* is coprime to n*n, and then encrypt_param is applied.                   *)
(***************************************************************************)
EncryptDraw ==
    /\ pc \in {"enc1", "enc2"}
    /\ \E v \in 2 .. Min(n * n, MaxRand) :
         IF gcd(v, n * n) = 1
         THEN IF pc = "enc1"
              THEN /\ r1' = v
                   /\ e1' = encrypt_param(m1, g, n, v)
                   /\ pc' = IF scenario = "mul" THEN "send" ELSE "enc2"
                   /\ UNCHANGED <<r2, e2>>
              ELSE /\ r2' = v
                   /\ e2' = encrypt_param(m2, g, n, v)
                   /\ pc' = "send"
                   /\ UNCHANGED <<r1, e1>>
         ELSE UNCHANGED <<pc, r1, r2, e1, e2>>
    /\ UNCHANGED <<keyVars, gMu, scenario, m1, m2, netVars, xVars>>

(***************************************************************************)
(* The client sends msg.serialise() and waits for the response.            *)
(***************************************************************************)
ClientSend ==
    /\ pc = "send"
    /\ req' = <<MessageToJson(fromValues(scenario, n, e1, e2, m2))>>
    /\ pc' = "recv"
    /\ UNCHANGED <<keyVars, gMu, encVars, srv, srvExc, resp, out, xVars>>

(***************************************************************************)
(* In place of the script's own request, any record of WireReqs reaches    *)
(* the server; the response is then handled as the script handles it.      *)
(***************************************************************************)
PeerSend ==
    /\ pc = "input"
    /\ \E rec \in WireReqs : req' = <<rec>>
    /\ pc' = "recv"
    /\ UNCHANGED <<keyVars, gMu, encVars, srv, srvExc, resp, out, xVars>>

(***************************************************************************)
(* PaillierHandler.handle.                                                 *)
(***************************************************************************)
ServerHandle ==
    /\ req # <<>>
    /\ srv = "idle"
    /\ resp = <<>>
    /\ LET h == handle(req[1])
       IN  /\ srv' = IF h.fault THEN "fault" ELSE "sent"
           /\ srvExc' = h.exc
           /\ resp' = h.response
    /\ UNCHANGED <<pc, keyVars, gMu, encVars, req, out, xVars>>

(***************************************************************************)
(* The peer's connection may be answered by something other than this      *)
(* server: any record of WireResps.                                        *)
(***************************************************************************)
NetRespond ==
    /\ req # <<>>
    /\ scenario = ""
    /\ srv = "idle"
    /\ resp = <<>>
    /\ \E rec \in WireResps : resp' = <<rec>>
    /\ UNCHANGED <<pc, keyVars, gMu, encVars, req, srv, srvExc, out, xVars>>

(***************************************************************************)
(* The client's handling of the response: deserialise, then decryptResult  *)
(* with its private key; an empty read ends the script.                    *)
(***************************************************************************)
Receive(json, lam, mu, nn) ==
    LET paillier_reponse == ResponseFromJson(json)
    IN  IF ~paillier_reponse.ok
        THEN Raised(paillier_reponse.exc, JStr(paillier_reponse.message))
        ELSE decryptResult(paillier_reponse.obj, lam, mu, nn)

ClientRecv ==
    /\ pc = "recv"
    /\ resp # <<>>
    /\ out' = Receive(resp[1], gLambda, gMu, n)
    /\ pc' = "done"
    /\ UNCHANGED <<keyVars, gMu, encVars, req, srv, srvExc, resp, xVars>>

ClientExit ==
    /\ pc = "recv"
    /\ srv = "fault"
    /\ pc' = "exit"
    /\ UNCHANGED <<keyVars, gMu, encVars, netVars, xVars>>

Init ==
    /\ pc = "keygen"
    /\ p \in Primes /\ q \in Primes /\ p # q
    /\ n = p * q
    /\ gLambda = (p - 1) * (q - 1)
    /\ g = n + 1
    /\ gMu = None
    /\ scenario = ""
    /\ m1 = 0 /\ m2 = 0
    /\ r1 = None /\ r2 = None /\ e1 = None /\ e2 = None
    /\ req = <<>> /\ srv = "idle" /\ srvExc = "" /\ resp = <<>>
    /\ out = NoOutcome
    /\ xa = 0 /\ xb = 0 /\ xres = <<>>

Next ==
    \/ KeyGenIter
    \/ Input
    \/ EncryptDraw
    \/ ClientSend
    \/ PeerSend
    \/ ServerHandle
    \/ NetRespond
    \/ ClientRecv
    \/ ClientExit

Spec == Init /\ [][Next]_vars

(***************************************************************************)
(* SpecXgcd: xgcd called on any pair of integers of -MaxArg .. MaxArg.     *)
(***************************************************************************)
XgcdCall ==
    /\ xres = <<>>
    /\ xres' = <<xgcd(xa, xb)>>
    /\ UNCHANGED <<pc, keyVars, gMu, encVars, netVars, xa, xb>>

InitXgcd ==
    /\ pc = "xgcd"
    /\ p = 3 /\ q = 5 /\ n = 15 /\ gLambda = 8 /\ g = 16 /\ gMu = None
    /\ scenario = ""
    /\ m1 = 0 /\ m2 = 0
    /\ r1 = None /\ r2 = None /\ e1 = None /\ e2 = None
    /\ req = <<>> /\ srv = "idle" /\ srvExc = "" /\ resp = <<>>
    /\ out = NoOutcome
    /\ xa \in -MaxArg .. MaxArg
    /\ xb \in -MaxArg .. MaxArg
    /\ xres = <<>>

NextXgcd == XgcdCall

SpecXgcd == InitXgcd /\ [][NextXgcd]_vars

(***************************************************************************)
(* Properties.                                                             *)
(***************************************************************************)
\* the ciphertexts of the message are complete (both of them, for add and sub)
Encrypted1 == e1 # None

Encrypted2 == e2 # None

\* C1: round trip. Every ciphertext encrypt_param made of a plaintext of
\* 0 .. n-1 with an accepted random factor decrypts, under the private key
\* generate_paillier_keys returned, to that plaintext.
C1_RoundTrip ==
    /\ Encrypted1 => decrypt(e1, gLambda, gMu, n) = m1
    /\ Encrypted2 => decrypt(e2, gLambda, gMu, n) = m2

C1_Witness ==
    /\ Encrypted1 /\ m1 = n - 1 /\ r1 > n
    /\ decrypt(e1, gLambda, gMu, n) = m1

C4_ScalarMul ==
    scenario = "mul" =>
        /\ resp # <<>> =>
              /\ resp[1]["type"] = JStr(MUL_RESP)
              /\ resp[1]["result"].kind = "int"
              /\ resp[1]["result"].int \in 0 .. n * n - 1
              /\ IF m2 >= 0
                 THEN resp[1]["result"].int = ModPow(e1, m2, n * n)
                 ELSE (resp[1]["result"].int * ModPow(e1, -m2, n * n)) % (n * n) = 1
        /\ pc = "done" => out = Value((m1 * m2) % n)

C4_Witness ==
    /\ scenario = "mul" /\ pc = "done"
    /\ m2 < -1 /\ m1 > 1
    /\ out = Value((m1 * m2) % n)

\* the request fails on the computation side: its parse or its computation
\* raises
FailsOnServer(json) ==
    \/ ~MessageFromJson(json).ok
    \/ ~computeResult(MessageFromJson(json).obj).ok

\* C5: every failure on the computation side becomes an Error response: the
\* handler always sends a response, of type ERROR when the parse or the
\* computation failed, and no exception leaves it.
C5_FailuresBecomeErrors ==
    srv # "idle" =>
        /\ srv = "sent"
        /\ resp # <<>>
        /\ FailsOnServer(req[1]) => resp[1]["type"] = JStr(ERROR)

\* the fields a request or a response of the given type must have, in order
RequiredFields(t) ==
    IF t \in {ADD, SUB} THEN <<"e1", "e2", "n">>
    ELSE IF t = MUL THEN <<"ciphertext", "multiplier", "n">>
    ELSE <<"result">>

\* the first field of the record that is missing or invalid: "type" when it
\* is absent or not one of known, else the first required field that is
\* absent; "" when the record is complete
FirstInvalid(json, known) ==
    IF "type" \notin DOMAIN json \/ json["type"].str \notin known THEN "type"
    ELSE LET fs == RequiredFields(json["type"].str)
             missing == {i \in DOMAIN fs : fs[i] \notin DOMAIN json}
         IN  IF missing = {} THEN ""
             ELSE fs[CHOOSE i \in missing : \A j \in missing : i <= j]

RequestTypes == {ADD, MUL, SUB}

ResponseTypes == {ADD_RESP, MUL_RESP, SUB_RESP, ERROR}

\* the error text names the field
Names(text, f) ==
    \/ text = "No \"" \o f \o "\" field in message"
    \/ text = "No \"" \o f \o " field in message"

\* C6: decoding a record whose type is absent or unrecognized, or which
\* lacks a field of its variant, raises MessageParseError with a message
\* naming the first such field; no object is made of it. For a request
\* the server answers with that message; for a response the client ends
\* with that exception.
C6_ParseErrorNamesField ==
    /\ (req # <<>> /\ srv # "idle" /\ FirstInvalid(req[1], RequestTypes) # "") =>
          /\ srv = "sent"
          /\ resp[1]["type"] = JStr(ERROR)
          /\ resp[1]["result"].kind = "str"
          /\ Names(resp[1]["result"].str, FirstInvalid(req[1], RequestTypes))
    /\ (pc = "done" /\ FirstInvalid(resp[1], ResponseTypes) # "") =>
          /\ out.kind = "raised"
          /\ out.exc = "MessageParseError"
          /\ Names(out.message.str, FirstInvalid(resp[1], ResponseTypes))

C6_Witness ==
    /\ srv = "sent"
    /\ DOMAIN req[1] = {"type", "e1"} /\ req[1]["type"] = JStr(ADD)
    /\ resp[1]["result"] = JStr("No \"e2\" field in message")
    /\ pc = "done"

\* a second case of C6: a response record of type SUB_RESP without a result
C6_WitnessResponse ==
    /\ pc = "done"
    /\ DOMAIN resp[1] = {"type"} /\ resp[1]["type"] = JStr(SUB_RESP)
    /\ out = Raised("MessageParseError", JStr("No \"result\" field in message"))

\* C7: a response decoded from a record of type ERROR never decrypts:
\* decryptResult raises PaillierComputationError carrying the response's
\* message ("error" when the record's result is empty or zero).
C7_ErrorUndecryptable ==
    (/\ pc = "done"
     /\ "type" \in DOMAIN resp[1] /\ resp[1]["type"] = JStr(ERROR)
     /\ "result" \in DOMAIN resp[1]) =>
        /\ out.kind = "raised"
        /\ out.exc = "PaillierComputationError"
        /\ out.message = IF Truthy(resp[1]["result"]) THEN resp[1]["result"]
                         ELSE JStr("error")

C7_Witness ==
    /\ pc = "done" /\ srv = "sent"
    /\ resp[1]["type"] = JStr(ERROR)
    /\ out = Raised("PaillierComputationError", resp[1]["result"])

\* an add request the server computes: complete, with a modulus other than 0
ComputableAdd(json) ==
    /\ FirstInvalid(json, RequestTypes) = ""
    /\ json["type"] = JStr(ADD)
    /\ json["n"].int # 0

SamePlaintextTwice == scenario \in {"add", "sub"} /\ Encrypted2 /\ m1 = m2

\* C9 as stated: two encryptions of one plaintext with different random
\* factors differ, and both decrypt to the plaintext.
C9_DifferentFactorsDiffer ==
    (SamePlaintextTwice /\ r1 # r2) =>
        /\ e1 # e2
        /\ decrypt(e1, gLambda, gMu, n) = m1
        /\ decrypt(e2, gLambda, gMu, n) = m1

\* C9 as amended: two encryptions of one plaintext with random factors that
\* are different modulo n differ, and both decrypt to the plaintext whatever
\* the factors.
C9_IncongruentFactorsDiffer ==
    SamePlaintextTwice =>
        /\ r1 % n # r2 % n => e1 # e2
        /\ decrypt(e1, gLambda, gMu, n) = m1
        /\ decrypt(e2, gLambda, gMu, n) = m1

C9_Witness ==
    /\ SamePlaintextTwice /\ m1 > 0
    /\ r1 % n # r2 % n /\ r2 > n
    /\ e1 # e2
    /\ decrypt(e2, gLambda, gMu, n) = m1

\* C10: xgcd returns g = gcd(a, b), which is not negative, with Bezout
\* coefficients x, y; its assertion does not fail.
C10_XgcdBezout ==
    xres # <<>> =>
        /\ xres[1].ok
        /\ xres[1].g = gcd(xa, xb)
        /\ xa * xres[1].x + xb * xres[1].y = xres[1].g

\* the client holds the key pair generate_paillier_keys returned
KeyReturned == pc \notin {"keygen", "xgcd"}

\* l of generate_paillier_keys: (g^lambda mod n*n - 1) // n
KeyL == PyFloorDiv(pow(g, gLambda, n * n).val - 1, n)

\* C11: key generation terminates. An iteration of the retry loop changes
\* nothing but gMu, so the loop is left after finitely many iterations just
\* when, wherever it stands, an iteration can assign gMu and return; and the
\* pair returned has lambda = (p-1)*(q-1), n = p*q, g = n+1 and a mu with
\* (l * mu) mod n = 1.
C11_KeyGenTerminates ==
    /\ pc = "keygen" => ENABLED <<KeyGenIter>>_vars
    /\ KeyReturned =>
          /\ gLambda = (p - 1) * (q - 1)
          /\ n = p * q
          /\ g = n + 1
          /\ gMu \in 0 .. n - 1
          /\ (KeyL * gMu) % n = 1

\* the part of C11 about the pair returned, taken alone
C11_ReturnedKeyIsValid ==
    KeyReturned =>
        /\ gLambda = (p - 1) * (q - 1)
        /\ n = p * q
        /\ g = n + 1
        /\ gMu \in 0 .. n - 1
        /\ (KeyL * gMu) % n = 1

\* C11 as a liveness property: under SpecFair, which obliges the loop to
\* take every iteration that changes the state, the key generator returns.
C11_EventuallyReturns == <>(pc # "keygen")

\* Spec with the retry loop scheduled: the script runs on, so an iteration
\* that can assign gMu is taken
SpecFair == Spec /\ WF_vars(KeyGenIter)

=============================================================================
